---- MODULE Spec2Model ----
(***************************************************************************)
(* The session coordinator of the fraud dashboard: the useSimulator hook   *)
(* of frontend/src/hooks/useSimulator.ts.                                  *)
(*                                                                         *)
(* The hook is a React function component hook.  Its state is              *)
(*   - React state (useState): transactions, stats, isRunning, error,      *)
(*     connectionStatus, isDemoMode.  A setter takes effect at once on     *)
(*     the stored value; the callbacks of the hook read the value of the   *)
(*     last committed render (rIsRunning, rIsDemoMode, rConnectionStatus). *)
(*   - refs (useRef): demoInterval, transactionCounter, ws,                *)
(*     reconnectTimeout, reconnectAttempts.  A ref is read and written     *)
(*     directly.                                                           *)
(*   - the timeouts of updateSpeed that restart the generator and have not *)
(*     fired yet (restarts); nothing holds their ids.                      *)
(*   - the environment: the WebSocket objects the hook created and that    *)
(*     are not yet closed, the reconnect timers not yet fired, and the     *)
(*     HTTP requests not yet settled.                                      *)
(* Every handler (an operator action, a timer callback, a socket event, a  *)
(* promise continuation, a commit of a render with its effects) is one     *)
(* action: the event loop runs each to completion.  Between a state        *)
(* update and the commit that follows it any other callback may run.       *)
(***************************************************************************)
EXTENDS Integers, Sequences, FiniteSets, Bags, TLC

VARIABLES
    transactions,        \* useState: the event buffer, newest first
    stats,               \* useState: AppStats (the fields the hook writes)
    isRunning,           \* useState
    error,               \* useState: "null" or the message
    connectionStatus,    \* useState
    isDemoMode,          \* useState
    demoInterval,        \* useRef: TRUE when the generator's setInterval is active
    transactionCounter,  \* useRef
    reconnectAttempts,   \* useRef
    sockets,             \* bag of the WebSocket objects not yet closed; cur marks ws.current
    timers,              \* bag of the pending reconnect timeouts; cur marks reconnectTimeout.current
    pending,             \* bag of the HTTP requests in flight
    restarts,            \* how many setTimeout(() => startDemoMode(), 50) are pending
    phase,               \* "init" before the mount effects, "mounted", "unmounted"
    rIsRunning,          \* isRunning as of the last committed render
    rIsDemoMode,         \* isDemoMode as of the last committed render
    rConnectionStatus,   \* connectionStatus as of the last committed render
    cw,                  \* what the memoized connectWebSocket closes over: [run, demo]
    wsSeq                \* how many events the remote stream has produced

vars == <<transactions, stats, isRunning, error, connectionStatus, isDemoMode,
          demoInterval, transactionCounter, reconnectAttempts, sockets, timers,
          pending, restarts, phase, rIsRunning, rIsDemoMode, rConnectionStatus,
          cw, wsSeq>>

-----------------------------------------------------------------------------
(* Bounds of the model. *)

\* events each source (generator, remote stream) produces in one run
MaxTx == 2
\* the same, in the specification that fills the buffer (SpecBuffer)
BufferRun == 203
\* asynchronous work outstanding at a time: WebSocket objects not yet closed,
\* reconnect timeouts not yet fired, control requests not yet settled
MaxAsync == 2
\* the largest counter value a remote /status answer carries
MaxRemote == 1
\* events injected in one run of the specification with failing requests
MaxInject == 1
\* the values Math.random() takes: k / RandomSteps for k in 0..RandomSteps-1
RandomSteps == 1000

(* Program constants. *)

BufferCapacity == 200
maxReconnectAttempts == 5
BaseDelayMs == 1000
MaxDelayMs == 10000
DemoDataSize == 100
DemoFraudEvery == 50
DefaultSpeed == 3

-----------------------------------------------------------------------------
(* Helpers on bags and sequences. *)

BagAdd(B, e) == B (+) SetToBag({e})

BagDel(B, e) == B (-) SetToBag({e})

Min(a, b) == IF a <= b THEN a ELSE b

RECURSIVE Pow2(_)
Pow2(k) == IF k = 0 THEN 1 ELSE 2 * Pow2(k - 1)

\* Array.prototype.slice(0, n)
Slice0(s, n) == SubSeq(s, 1, Min(Len(s), n))

-----------------------------------------------------------------------------
(* The mutable state a handler works on, as one record, so that a handler  *)
(* and the functions it calls compose.                                     *)

Cur == [transactions |-> transactions, stats |-> stats, isRunning |-> isRunning,
        error |-> error, connectionStatus |-> connectionStatus,
        isDemoMode |-> isDemoMode, demoInterval |-> demoInterval,
        transactionCounter |-> transactionCounter,
        reconnectAttempts |-> reconnectAttempts, sockets |-> sockets,
        timers |-> timers, pending |-> pending, restarts |-> restarts]

Set(m) ==
    /\ transactions' = m.transactions
    /\ stats' = m.stats
    /\ isRunning' = m.isRunning
    /\ error' = m.error
    /\ connectionStatus' = m.connectionStatus
    /\ isDemoMode' = m.isDemoMode
    /\ demoInterval' = m.demoInterval
    /\ transactionCounter' = m.transactionCounter
    /\ reconnectAttempts' = m.reconnectAttempts
    /\ sockets' = m.sockets
    /\ timers' = m.timers
    /\ pending' = m.pending
    /\ restarts' = m.restarts

\* the control requests in flight: all but the (at most one) status poll
Controls(P) ==
    BagCardinality(P) - (IF \E r \in BagToSet(P) : r.kind = "status" THEN 1 ELSE 0)

Outstanding(m) ==
    BagCardinality(m.sockets) + BagCardinality(m.timers) + Controls(m.pending)
        + m.restarts

WithinBounds(m) == Outstanding(m) <= MaxAsync

defaultStats ==
    [is_running |-> FALSE, speed |-> DefaultSpeed,
     transactions_processed |-> 0, fraud_count |-> 0]

-----------------------------------------------------------------------------
(* The session's functions, each on the record of mutable state.           *)

\* the head insert without the trim to the capacity
PrependUntrimmed(tx, prev) == <<tx>> \o prev

\* [tx, ...prev].slice(0, 200)
Prepend(tx, prev) == Slice0(<<tx>> \o prev, BufferCapacity)

\* the generator without its fraud flag
generateDemoTransactionUnflagged(id, isFraud) ==
    [src |-> "demo", seq |-> id, is_fraud |-> FALSE]

\* generateDemoTransaction(id, forceFraud): the fields the session reads
generateDemoTransaction(id, isFraud) ==
    [src |-> "demo", seq |-> id, is_fraud |-> isFraud]

\* ws.current, as the set of the (at most one) socket it refers to
Current(S) == {s \in BagToSet(S) : s.cur}

\* ws.current = <something else>: the socket it referred to stays alive
Orphan(S) ==
    IF Current(S) = {} THEN S
    ELSE LET c == CHOOSE s \in Current(S) : TRUE
         IN  BagAdd(BagDel(S, c), [c EXCEPT !.cur = FALSE])

\* the backoff without its cap
ReconnectDelayUncapped(attempts) == BaseDelayMs * Pow2(attempts)

\* Math.min(1000 * Math.pow(2, attempts), 10000)
ReconnectDelay(attempts) == Min(BaseDelayMs * Pow2(attempts), MaxDelayMs)

startDemoMode(m) ==
    IF m.demoInterval THEN m
    ELSE [m EXCEPT !.connectionStatus = "connected",
                   !.isRunning = TRUE,
                   !.demoInterval = TRUE]

stopDemoMode(m) ==
    [m EXCEPT !.demoInterval = FALSE, !.isRunning = FALSE]

\* connectWebSocket, as the closure c = [run, demo] it was created with
connectWebSocket(m, c) ==
    IF c.demo THEN [m EXCEPT !.connectionStatus = "connected"]
    ELSE IF \E s \in Current(m.sockets) : s.st = "OPEN" THEN m
    ELSE [m EXCEPT !.connectionStatus = "connecting",
                   !.sockets = BagAdd(Orphan(@),
                                      [st |-> "CONNECTING", cRun |-> c.run, cur |-> TRUE])]

\* ws.onopen
onopen(m) ==
    [m EXCEPT !.connectionStatus = "connected", !.reconnectAttempts = 0]

\* ws.onerror
onerror(m) ==
    [m EXCEPT !.connectionStatus = "disconnected"]

\* ws.onclose of a socket whose closure saw isRunning = cRun; the socket
\* itself has left the bag
onclose(m, cRun) ==
    LET m1 == [m EXCEPT !.connectionStatus = "disconnected",
                        !.sockets = Orphan(@)]
    IN  IF cRun /\ m1.reconnectAttempts < maxReconnectAttempts
        THEN [m1 EXCEPT
                !.timers = BagAdd(Orphan(@),
                                  [delay |-> ReconnectDelay(m1.reconnectAttempts),
                                   cRun |-> cRun, cur |-> TRUE]),
                !.reconnectAttempts = @ + 1]
        ELSE m1

\* clearTimeout(reconnectTimeout.current): a no-op once that timer has fired
clearReconnectTimeout(T) ==
    IF Current(T) = {} THEN T
    ELSE BagDel(T, CHOOSE t \in Current(T) : TRUE)

\* ws.current.close() that keeps the handle
closeCurrentKeepHandle(S) ==
    IF Current(S) = {} THEN S
    ELSE LET c == CHOOSE s \in Current(S) : TRUE
         IN  BagAdd(BagDel(S, c), [c EXCEPT !.st = "CLOSING"])

\* ws.current.close(); ws.current = null
closeCurrent(S) ==
    IF Current(S) = {} THEN S
    ELSE LET c == CHOOSE s \in Current(S) : TRUE
         IN  BagAdd(BagDel(S, c), [c EXCEPT !.st = "CLOSING", !.cur = FALSE])

disconnectWebSocket(m) ==
    [m EXCEPT !.timers = clearReconnectTimeout(@),
              !.sockets = closeCurrent(@),
              !.connectionStatus = "disconnected"]

-----------------------------------------------------------------------------
(* HTTP requests in flight: [kind, cRun, tag].  cRun is the isRunning the  *)
(* connectWebSocket captured by a start saw.  tag names the race a request *)
(* is part of: a stop ("stop") or a reset ("reset") issued while a start   *)
(* was in flight marks itself and that start.                              *)

Request(kind, cRun, tag) == [kind |-> kind, cRun |-> cRun, tag |-> tag]

InFlight(P, kind) == {r \in BagToSet(P) : r.kind = kind}

RECURSIVE TagAll(_, _, _)
TagAll(P, S, tag) ==
    IF S = {} THEN P
    ELSE LET r == CHOOSE x \in S : TRUE
             n == CopiesIn(r, P)
             moved == [x \in {[r EXCEPT !.tag = tag]} |-> n]
         IN  TagAll((P (-) [x \in {r} |-> n]) (+) moved, S \ {r}, tag)

UntaggedStarts(P) == {r \in InFlight(P, "start") : r.tag = "none"}

\* issue a stop or a reset: it races the starts in flight
Issue(P, kind) ==
    IF UntaggedStarts(P) = {} THEN BagAdd(P, Request(kind, FALSE, "none"))
    ELSE BagAdd(TagAll(P, UntaggedStarts(P), kind), Request(kind, FALSE, kind))

\* what GET /status answers
RemoteIdle ==
    {r \in [is_running : BOOLEAN, speed : {DefaultSpeed},
            transactions_processed : {0}, fraud_count : {0}] : TRUE}

RemoteStatus ==
    {r \in [is_running : BOOLEAN, speed : {DefaultSpeed},
            transactions_processed : 0..MaxRemote, fraud_count : 0..MaxRemote] :
        r.fraud_count <= r.transactions_processed}

\* the counters POST /inject-fraud answers with: <<0, 0>> when the answer
\* carries none, else the remote totals after the injection
InjectStats ==
    {<<0, 0>>} \cup {<<p, f>> \in (1..MaxRemote) \X (1..MaxRemote) : f <= p}

\* a || b on numbers
OrElse(a, b) == IF a = 0 THEN b ELSE a

fetchStatus(m, demo) ==
    IF demo THEN [m EXCEPT !.error = "null"]
    ELSE IF InFlight(m.pending, "status") # {} THEN m
    ELSE [m EXCEPT !.pending = BagAdd(@, Request("status", FALSE, "none"))]

\* the cleanup the mount effect returned when it ran with isDemoMode = demo
cleanup(m, demo) ==
    IF demo THEN stopDemoMode(m) ELSE disconnectWebSocket(m)

\* the body of the mount effect, run with the closures of the render being
\* committed
mountEffect(m, demo, c) == connectWebSocket(fetchStatus(m, demo), c)

\* the body of the reconnect effect
reconnectEffect(m, demo, running, status, c) ==
    IF ~demo /\ running /\ status = "disconnected"
    THEN connectWebSocket(m, c) ELSE m

-----------------------------------------------------------------------------
(* The initial state: the first render, before its effects have run.       *)
(* isDemoMode starts from the build's configuration (FORCE_DEMO, or a      *)
(* production build without an API URL).                                   *)

Init ==
    /\ transactions = <<>>
    /\ stats = defaultStats
    /\ isRunning = FALSE
    /\ error = "null"
    /\ connectionStatus = "disconnected"
    /\ isDemoMode \in BOOLEAN
    /\ demoInterval = FALSE
    /\ transactionCounter = 0
    /\ reconnectAttempts = 0
    /\ sockets = EmptyBag
    /\ timers = EmptyBag
    /\ pending = EmptyBag
    /\ restarts = 0
    /\ phase = "init"
    /\ rIsRunning = FALSE
    /\ rIsDemoMode = isDemoMode
    /\ rConnectionStatus = "disconnected"
    /\ cw = [run |-> FALSE, demo |-> isDemoMode]
    /\ wsSeq = 0

Render == UNCHANGED <<phase, rIsRunning, rIsDemoMode, rConnectionStatus, cw>>

\* a handler that leaves the render and the remote stream alone
Handler(m) == WithinBounds(m) /\ Set(m) /\ Render /\ UNCHANGED wsSeq

-----------------------------------------------------------------------------
(* Rendering: the effects of the first commit, of a later commit, and the  *)
(* teardown.                                                               *)

Mount ==
    /\ phase = "init"
    /\ LET m == mountEffect(Cur, isDemoMode, cw)
       IN  WithinBounds(m) /\ Set(m)
    /\ phase' = "mounted"
    /\ UNCHANGED <<rIsRunning, rIsDemoMode, rConnectionStatus, cw, wsSeq>>

Dirty ==
    <<isRunning, isDemoMode, connectionStatus>>
        # <<rIsRunning, rIsDemoMode, rConnectionStatus>>

\* A commit renders the current state.  connectWebSocket is memoized on
\* [isRunning]; the mount effect depends on fetchStatus (memoized on
\* [isDemoMode]), connectWebSocket and isDemoMode; the reconnect effect on
\* isRunning, connectionStatus, connectWebSocket and isDemoMode.
Commit ==
    /\ phase = "mounted"
    /\ Dirty
    /\ LET c == IF isRunning # rIsRunning
                THEN [run |-> isRunning, demo |-> isDemoMode] ELSE cw
           again == isRunning # rIsRunning \/ isDemoMode # rIsDemoMode
           m1 == IF again THEN cleanup(Cur, rIsDemoMode) ELSE Cur
           m2 == IF again THEN mountEffect(m1, isDemoMode, c) ELSE m1
           m3 == reconnectEffect(m2, isDemoMode, isRunning, connectionStatus, c)
       IN  /\ WithinBounds(m3)
           /\ Set(m3)
           /\ cw' = c
    /\ rIsRunning' = isRunning
    /\ rIsDemoMode' = isDemoMode
    /\ rConnectionStatus' = connectionStatus
    /\ UNCHANGED <<phase, wsSeq>>

Unmount ==
    /\ phase = "mounted"
    /\ Set(cleanup(Cur, rIsDemoMode))
    /\ phase' = "unmounted"
    /\ UNCHANGED <<rIsRunning, rIsDemoMode, rConnectionStatus, cw, wsSeq>>

-----------------------------------------------------------------------------
(* The status poll.                                                        *)

\* setInterval(fetchStatus, 5000), set by the mount effect in Live Mode
PollStatus ==
    /\ phase = "mounted"
    /\ ~rIsDemoMode
    /\ InFlight(pending, "status") = {}
    /\ Handler(fetchStatus(Cur, FALSE))

StatusOk(Answers) ==
    \E r \in InFlight(pending, "status"), data \in Answers :
        Handler([Cur EXCEPT !.pending = BagDel(@, r),
                            !.stats = data,
                            !.isRunning = data.is_running,
                            !.error = "null"])

\* a failover that reports the failure as an error
StatusFailBanner ==
    \E r \in InFlight(pending, "status") :
        Handler([Cur EXCEPT !.pending = BagDel(@, r),
                            !.isDemoMode = TRUE,
                            !.error = "Failed to fetch status"])

StatusFail ==
    \E r \in InFlight(pending, "status") :
        Handler([Cur EXCEPT !.pending = BagDel(@, r),
                            !.isDemoMode = TRUE,
                            !.error = "null"])

-----------------------------------------------------------------------------
(* start, stop                                                             *)

StartSimulation ==
    /\ phase = "mounted"
    /\ Handler(IF rIsDemoMode THEN startDemoMode(Cur)
               ELSE [Cur EXCEPT !.pending = BagAdd(@, Request("start", cw.run, "none"))])

StartOk ==
    \E r \in InFlight(pending, "start") :
        Handler(connectWebSocket([Cur EXCEPT !.pending = BagDel(@, r),
                                             !.isRunning = TRUE],
                                 [run |-> r.cRun, demo |-> FALSE]))

StartFail ==
    \E r \in InFlight(pending, "start") :
        Handler([Cur EXCEPT !.pending = BagDel(@, r),
                            !.error = "Failed to start simulation"])

StopSimulation ==
    /\ phase = "mounted"
    /\ Handler(IF rIsDemoMode THEN stopDemoMode(Cur)
               ELSE [Cur EXCEPT !.pending = Issue(@, "stop")])

StopOk ==
    \E r \in InFlight(pending, "stop") :
        Handler(disconnectWebSocket([Cur EXCEPT !.pending = BagDel(@, r),
                                                !.isRunning = FALSE]))

StopFail ==
    \E r \in InFlight(pending, "stop") :
        Handler([Cur EXCEPT !.pending = BagDel(@, r),
                            !.error = "Failed to stop simulation"])

\* toggleSimulation, memoized on the isRunning of its render
ToggleSimulation ==
    IF rIsRunning THEN StopSimulation ELSE StartSimulation

-----------------------------------------------------------------------------
(* updateSpeed                                                             *)

\* the speeds the operator asks for: the slider's, and values that are no
\* speed
Speeds == {0 - 1, 0, DefaultSpeed, DefaultSpeed + 2}

\* POST /control/config in flight, with the speed its continuation holds
ConfigRequest(speed) ==
    [kind |-> "config", cRun |-> FALSE, tag |-> "none", speed |-> speed]

\* updateSpeed(speed), up to its return (Local Mode) or its await
UpdateSpeed(speed) ==
    /\ phase = "mounted"
    /\ Handler(
        IF rIsDemoMode
        THEN LET m == [Cur EXCEPT !.stats = [@ EXCEPT !.speed = speed]]
             IN  IF rIsRunning /\ demoInterval
                 THEN [stopDemoMode(m) EXCEPT !.restarts = @ + 1]
                 ELSE m
        ELSE [Cur EXCEPT !.pending = BagAdd(@, ConfigRequest(speed))])

ConfigOk ==
    \E r \in InFlight(pending, "config") :
        Handler([Cur EXCEPT !.pending = BagDel(@, r),
                            !.stats = [@ EXCEPT !.speed = r.speed]])

\* the catch of updateSpeed logs to the console
ConfigFail ==
    \E r \in InFlight(pending, "config") :
        Handler([Cur EXCEPT !.pending = BagDel(@, r)])

\* setTimeout(() => startDemoMode(), 50) fires
RestartTimer ==
    /\ restarts > 0
    /\ Handler(startDemoMode([Cur EXCEPT !.restarts = @ - 1]))

-----------------------------------------------------------------------------
(* The local generator.                                                    *)

\* the bound on the generator in the small specifications: MaxTx events
\* from zero or from the counter loadDemoData leaves
GeneratorLimit ==
    IF transactionCounter >= DemoDataSize THEN DemoDataSize + MaxTx ELSE MaxTx

\* a tick that puts its event at the tail of the buffer
DemoTickAppend(Draws, max) ==
    /\ demoInterval
    /\ transactionCounter < max
    /\ \E isFraud \in Draws :
        LET id == transactionCounter + 1
            tx == generateDemoTransaction(id, isFraud)
        IN  Handler([Cur EXCEPT
                !.transactionCounter = id,
                !.transactions = Slice0(@ \o <<tx>>, BufferCapacity),
                !.stats = [@ EXCEPT !.is_running = TRUE,
                                    !.transactions_processed = id,
                                    !.fraud_count = IF tx.is_fraud THEN @ + 1 ELSE @]])

\* one callback of the setInterval of startDemoMode; isFraud is the draw
\* Math.random() < 0.02, one of Draws
DemoTick(Draws, max) ==
    /\ demoInterval
    /\ transactionCounter < max
    /\ \E isFraud \in Draws :
        LET id == transactionCounter + 1
            tx == generateDemoTransaction(id, isFraud)
        IN  Handler([Cur EXCEPT
                !.transactionCounter = id,
                !.transactions = Prepend(tx, @),
                !.stats = [@ EXCEPT !.is_running = TRUE,
                                    !.transactions_processed = id,
                                    !.fraud_count = IF tx.is_fraud THEN @ + 1 ELSE @]])

-----------------------------------------------------------------------------
(* injectFraud, showFraudOnly, loadDemoData, clearTransactions,            *)
(* resetSimulator                                                          *)

InjectFraud(max) ==
    /\ phase = "mounted"
    /\ rIsDemoMode => transactionCounter < max
    /\ Handler(
        IF rIsDemoMode
        THEN LET m == stopDemoMode(Cur)
                 id == transactionCounter + 1
                 fraudTx == generateDemoTransaction(id, TRUE)
             IN  [m EXCEPT !.transactionCounter = id,
                           !.transactions = Prepend(fraudTx, @),
                           !.stats = [@ EXCEPT !.transactions_processed = id,
                                               !.fraud_count = @ + 1]]
        ELSE LET m == disconnectWebSocket([Cur EXCEPT !.isRunning = FALSE])
             IN  [m EXCEPT !.pending = BagAdd(@, Request("inject", FALSE, "none"))])

\* the answer of POST /inject-fraud: one fraud event of the remote stream,
\* with or without the remote totals
InjectOk(max) ==
    /\ wsSeq < max
    /\ \E r \in InFlight(pending, "inject"), totals \in InjectStats :
        LET fraudTransaction == [src |-> "remote", seq |-> wsSeq + 1, is_fraud |-> TRUE]
            m == [Cur EXCEPT
                    !.pending = BagDel(@, r),
                    !.transactions = Prepend(fraudTransaction, @),
                    !.stats = [@ EXCEPT
                        !.transactions_processed = OrElse(totals[1], @ + 1),
                        !.fraud_count = OrElse(totals[2], @ + 1)]]
        IN  WithinBounds(m) /\ Set(m) /\ Render
    /\ wsSeq' = wsSeq + 1

InjectFail ==
    \E r \in InFlight(pending, "inject") :
        Handler([Cur EXCEPT !.pending = BagDel(@, r),
                            !.error = "Failed to inject fraud"])

IsFraud(tx) == tx.is_fraud = TRUE

ShowFraudOnly ==
    /\ phase = "mounted"
    /\ LET m0 == [Cur EXCEPT !.isRunning = FALSE]
           m1 == IF rIsDemoMode THEN stopDemoMode(m0) ELSE disconnectWebSocket(m0)
       IN  Handler([m1 EXCEPT !.transactions = SelectSeq(@, IsFraud)])

\* the indices i of loadDemoData for which Math.random() < 0.02 came true
LoadFraudDraws == {{}, {1}}

\* Array.from({ length: 100 }, (_, i) => generateDemoTransaction(i + 1, i % 50 === 0))
DemoTransactions(draw) ==
    [k \in 1..DemoDataSize |->
        generateDemoTransaction(k, (k - 1) % DemoFraudEvery = 0 \/ (k - 1) \in draw)]

\* the arrays GET /demo-data?limit=100 answers with, as the is_fraud of each
\* item: the short ones, and a full one
DemoDataAnswers == UNION {[1..n -> BOOLEAN] : n \in 0..MaxTx}

DemoDataFull == {[k \in 1..DemoDataSize |-> FALSE]}

\* response.data.map(...)
MapDemoData(data) ==
    [k \in 1..Len(data) |-> [src |-> "data", seq |-> k - 1, is_fraud |-> data[k]]]

\* a load that leaves the generator's counter where it was
LoadDemoDataKeepCounter ==
    /\ phase = "mounted"
    /\ \E draw \in LoadFraudDraws :
        LET demoTransactions == DemoTransactions(draw)
        IN  Handler(
              IF rIsDemoMode
              THEN [Cur EXCEPT
                      !.transactions = demoTransactions,
                      !.stats = [@ EXCEPT
                          !.transactions_processed = DemoDataSize,
                          !.fraud_count = Len(SelectSeq(demoTransactions, IsFraud))]]
              ELSE [Cur EXCEPT !.pending = BagAdd(@, Request("demo-data", FALSE, "none"))])

LoadDemoData ==
    /\ phase = "mounted"
    /\ \E draw \in LoadFraudDraws :
        LET demoTransactions == DemoTransactions(draw)
        IN  Handler(
              IF rIsDemoMode
              THEN [Cur EXCEPT
                      !.transactions = demoTransactions,
                      !.transactionCounter = DemoDataSize,
                      !.stats = [@ EXCEPT
                          !.transactions_processed = DemoDataSize,
                          !.fraud_count = Len(SelectSeq(demoTransactions, IsFraud))]]
              ELSE [Cur EXCEPT !.pending = BagAdd(@, Request("demo-data", FALSE, "none"))])

DemoDataOk(Answers) ==
    \E r \in InFlight(pending, "demo-data"), data \in Answers :
        Handler([Cur EXCEPT !.pending = BagDel(@, r),
                            !.transactions = MapDemoData(data)])

\* the answer is not an array: nothing is stored
DemoDataOther ==
    \E r \in InFlight(pending, "demo-data") :
        Handler([Cur EXCEPT !.pending = BagDel(@, r)])

DemoDataFail ==
    \E r \in InFlight(pending, "demo-data") :
        Handler([Cur EXCEPT !.pending = BagDel(@, r),
                            !.error = "Failed to load demo data"])

\* a clear that also zeroes the counters
ClearTransactionsAndCounters ==
    /\ phase = "mounted"
    /\ Handler([Cur EXCEPT !.transactions = <<>>,
                           !.stats = [@ EXCEPT !.transactions_processed = 0,
                                               !.fraud_count = 0]])

ClearTransactions ==
    /\ phase = "mounted"
    /\ Handler([Cur EXCEPT !.transactions = <<>>])

ResetSimulator ==
    /\ phase = "mounted"
    /\ Handler(
        IF rIsDemoMode
        THEN LET m == stopDemoMode(Cur)
             IN  [m EXCEPT !.transactions = <<>>,
                           !.transactionCounter = 0,
                           !.stats = [@ EXCEPT !.transactions_processed = 0,
                                               !.fraud_count = 0,
                                               !.is_running = FALSE]]
        ELSE [Cur EXCEPT !.pending = Issue(@, "reset")])

ResetOk ==
    \E r \in InFlight(pending, "reset") :
        Handler(disconnectWebSocket(
            [Cur EXCEPT !.pending = BagDel(@, r),
                        !.transactions = <<>>,
                        !.isRunning = FALSE,
                        !.stats = [@ EXCEPT !.transactions_processed = 0,
                                            !.fraud_count = 0,
                                            !.is_running = FALSE]]))

ResetFail ==
    \E r \in InFlight(pending, "reset") :
        Handler([Cur EXCEPT !.pending = BagDel(@, r),
                            !.error = "Failed to reset simulator"])

-----------------------------------------------------------------------------
(* The events of a WebSocket and the reconnect timeout.                    *)

SocketOpen ==
    \E s \in BagToSet(sockets) :
        /\ s.st = "CONNECTING"
        /\ Handler(onopen([Cur EXCEPT
                !.sockets = BagAdd(BagDel(@, s), [s EXCEPT !.st = "OPEN"])]))

\* a message of the remote stream that parses; its is_fraud is one of Flags
SocketMessage(Flags, max) ==
    /\ wsSeq < max
    /\ \E s \in BagToSet(sockets), isFraud \in Flags :
        /\ s.st = "OPEN"
        /\ LET transaction == [src |-> "remote", seq |-> wsSeq + 1, is_fraud |-> isFraud]
               m == [Cur EXCEPT !.transactions = Prepend(transaction, @)]
           IN  WithinBounds(m) /\ Set(m) /\ Render
    /\ wsSeq' = wsSeq + 1

\* a parse failure that is treated as a failure of the connection
SocketMalformedSurfaced(max) ==
    /\ wsSeq < max
    /\ \E s \in BagToSet(sockets) :
        /\ s.st = "OPEN"
        /\ Set([Cur EXCEPT !.error = "Failed to parse transaction",
                           !.connectionStatus = "disconnected"])
        /\ Render
    /\ wsSeq' = wsSeq + 1

\* a message of the remote stream that JSON.parse rejects: the catch logs it
SocketMalformed(max) ==
    /\ wsSeq < max
    /\ \E s \in BagToSet(sockets) :
        /\ s.st = "OPEN"
        /\ Set(Cur) /\ Render
    /\ wsSeq' = wsSeq + 1

\* the connection fails or drops: the error event, then the close event
SocketFail ==
    \E s \in BagToSet(sockets) :
        /\ s.st \in {"CONNECTING", "OPEN"}
        /\ Handler(onclose(onerror([Cur EXCEPT !.sockets = BagDel(@, s)]), s.cRun))

\* the close event alone: the remote end closes an open socket, or the
\* close() the session called completes
SocketClose ==
    \E s \in BagToSet(sockets) :
        /\ s.st \in {"OPEN", "CLOSING"}
        /\ Handler(onclose([Cur EXCEPT !.sockets = BagDel(@, s)], s.cRun))

\* setTimeout(connectWebSocket, delay) fires
ReconnectTimer ==
    \E t \in BagToSet(timers) :
        Handler(connectWebSocket([Cur EXCEPT !.timers = BagDel(@, t)],
                                 [run |-> t.cRun, demo |-> FALSE]))

-----------------------------------------------------------------------------

(* The specifications.  Each runs the session in one environment.         *)

\* The connection manager: the operator starts, stops, filters and resets;
\* the remote service answers, fails over, opens and drops sockets; no
\* event arrives and the remote counters stay at zero.
Next ==
    \/ Mount \/ Commit
    \/ PollStatus \/ StatusOk(RemoteIdle) \/ StatusFail
    \/ StartSimulation \/ StartOk
    \/ StopSimulation \/ StopOk
    \/ ShowFraudOnly
    \/ ResetSimulator \/ ResetOk
    \/ SocketOpen \/ SocketFail \/ SocketClose
    \/ ReconnectTimer

Spec == Init /\ [][Next]_vars

\* The failover: the remote service reports its counters until a status
\* request fails; the operator acts once the session has rendered Local
\* Simulation Mode.
NextFailover ==
    \/ Mount \/ Commit
    \/ PollStatus \/ StatusOk(RemoteStatus) \/ StatusFail
    \/ SocketOpen \/ SocketFail \/ SocketClose
    \/ ReconnectTimer
    \/ DemoTick(BOOLEAN, GeneratorLimit)
    \/ (rIsDemoMode /\ StartSimulation)
    \/ (rIsDemoMode /\ StopSimulation)
    \/ (rIsDemoMode /\ InjectFraud(GeneratorLimit))
    \/ (rIsDemoMode /\ ResetSimulator)
    \/ (rIsDemoMode /\ ShowFraudOnly)
    \/ (rIsDemoMode /\ ClearTransactions)

SpecFailover == Init /\ [][NextFailover]_vars

\* The buffer at its capacity: one source feeds the buffer (the generator
\* with every draw a non-fraud, or one socket of the remote stream with
\* non-fraud events), and the operator acts once the buffer is full; a
\* fraud is injected also into the empty buffer.
AtCapacity == Len(transactions) = BufferCapacity

NextBuffer ==
    \/ Mount \/ Commit
    \/ (rIsDemoMode /\ StartSimulation)
    \/ DemoTick({FALSE}, BufferRun)
    \/ SocketOpen
    \/ SocketMessage({FALSE}, BufferRun)
    \/ ((AtCapacity \/ transactions = <<>>) /\ InjectFraud(BufferRun))
    \/ InjectOk(BufferRun)
    \/ (AtCapacity /\ LoadDemoData)
    \/ DemoDataOk(DemoDataFull)
    \/ (AtCapacity /\ rIsDemoMode /\ ResetSimulator)
    \/ (AtCapacity /\ ShowFraudOnly)
    \/ (AtCapacity /\ ClearTransactions)

SpecBuffer == Init /\ [][NextBuffer]_vars

\* The remote service fails requests: every control request may be answered
\* or rejected; the status poll keeps answering, so the session stays in the
\* mode it started in.
NextFaults ==
    \/ Mount \/ Commit
    \/ PollStatus \/ StatusOk(RemoteIdle)
    \/ StartSimulation \/ StartOk \/ StartFail
    \/ StopSimulation \/ StopOk \/ StopFail
    \/ ResetSimulator \/ ResetOk \/ ResetFail
    \/ InjectFraud(MaxInject) \/ InjectOk(MaxInject) \/ InjectFail
    \/ (\E v \in {DefaultSpeed + 2} : UpdateSpeed(v)) \/ ConfigOk \/ ConfigFail
    \/ RestartTimer
    \/ SocketOpen \/ SocketFail \/ SocketClose
    \/ ReconnectTimer

SpecFaults == Init /\ [][NextFaults]_vars

\* Local Simulation Mode: the operator drives the generator, changes its
\* speed, loads the demo data, filters, clears, resets, and the component
\* is torn down; the timers of the generator fire whenever they are set.
NextLocal ==
    \/ Mount \/ Commit \/ Unmount
    \/ (rIsDemoMode /\ StartSimulation)
    \/ (rIsDemoMode /\ StopSimulation)
    \/ DemoTick(BOOLEAN, GeneratorLimit)
    \/ (\E v \in Speeds : UpdateSpeed(v))
    \/ RestartTimer
    \/ (rIsDemoMode /\ InjectFraud(GeneratorLimit))
    \/ (rIsDemoMode /\ ShowFraudOnly)
    \/ (rIsDemoMode /\ LoadDemoData)
    \/ (rIsDemoMode /\ ClearTransactions)
    \/ (rIsDemoMode /\ ResetSimulator)

SpecLocal == Init /\ [][NextLocal]_vars

\* The generator alone: a session in Local Simulation Mode from its
\* construction, or failed over to it before any event arrived, is started
\* and reset, and its generator ticks past the capacity of the buffer.
NextTicks ==
    \/ Mount \/ Commit
    \/ StatusOk(RemoteIdle) \/ StatusFail
    \/ (rIsDemoMode /\ StartSimulation)
    \/ DemoTick({FALSE}, BufferRun)
    \/ (rIsDemoMode /\ ResetSimulator)

SpecTicks == Init /\ [][NextTicks]_vars

\* The toggle: the operator only toggles; the remote service answers the
\* requests, and the socket opens, fails and closes.
NextToggle ==
    \/ Mount \/ Commit
    \/ ToggleSimulation
    \/ StartOk \/ StopOk
    \/ SocketOpen \/ SocketFail \/ SocketClose
    \/ ReconnectTimer

SpecToggle == Init /\ [][NextToggle]_vars

\* The mode selector: status requests are answered or fail while a start
\* request is answered or rejected, so that a failover finds the session
\* with or without an error.
NextMode ==
    \/ Mount \/ Commit
    \/ PollStatus \/ StatusOk(RemoteIdle) \/ StatusFail
    \/ StartSimulation \/ StartOk \/ StartFail
    \/ SocketOpen \/ SocketFail \/ SocketClose

SpecMode == Init /\ [][NextMode]_vars

\* The risk fields of a generated event.  A score is an integer number of
\* 1 / (10 * RandomSteps); a stored score is a number of thousandths.

\* isFraud ? 0.7 + Math.random() * 0.3 : Math.random() * 0.4
riskScore(isFraud, r) == IF isFraud THEN 7 * RandomSteps + 3 * r ELSE 4 * r

\* Math.round(riskScore * 1000) / 1000, in thousandths (halves round up)
risk_score(x) == (200 * x + RandomSteps) \div (2 * RandomSteps)

\* riskScore > 0.7 ? 'high' : riskScore > 0.4 ? 'medium' : 'low'
risk_level(x) ==
    IF x > 7 * RandomSteps THEN "high"
    ELSE IF x > 4 * RandomSteps THEN "medium"
    ELSE "low"

\* the event of generateDemoTransaction with its risk fields, for the draw r
\* of Math.random()
generateDemoRisk(id, isFraud, r) ==
    [src |-> "demo", seq |-> id, is_fraud |-> isFraud,
     risk_score |-> risk_score(riskScore(isFraud, r)),
     risk_level |-> risk_level(riskScore(isFraud, r))]

\* one call of generateDemoTransaction, its result kept as the buffer
GenerateRisk ==
    /\ phase = "init"
    /\ isDemoMode
    /\ \E isFraud \in BOOLEAN, r \in 0..(RandomSteps - 1) :
        transactions' = <<generateDemoRisk(1, isFraud, r)>>
    /\ UNCHANGED <<stats, isRunning, error, connectionStatus, isDemoMode,
                   demoInterval, transactionCounter, reconnectAttempts, sockets,
                   timers, pending, restarts, phase, rIsRunning, rIsDemoMode,
                   rConnectionStatus, cw, wsSeq>>

NextRisk == GenerateRisk

SpecRisk == Init /\ [][NextRisk]_vars

\* The feed: either source delivers events, frauds among them, and the
\* remote stream also frames that do not parse; the operator starts, filters
\* and clears.
NextFeed ==
    \/ Mount \/ Commit
    \/ StartSimulation \/ StartOk
    \/ DemoTick(BOOLEAN, MaxTx)
    \/ SocketOpen
    \/ SocketMessage(BOOLEAN, MaxTx)
    \/ SocketMalformed(MaxTx + 1)
    \/ SocketClose
    \/ ShowFraudOnly
    \/ ClearTransactions

SpecFeed == Init /\ [][NextFeed]_vars

-----------------------------------------------------------------------------
(* The properties.                                                         *)

\* the sockets whose handlers can still deliver an open or a message
LiveSockets(S) ==
    LET L == {s \in BagToSet(S) : s.st \in {"CONNECTING", "OPEN"}}
    IN  BagCardinality([s \in L |-> CopiesIn(s, S)])

\* the sockets the session closed and whose close event is still to come
ClosingSockets(S) == BagCardinality(S) - LiveSockets(S)

\* the step constructs a WebSocket: no step both constructs and removes one
Constructs == BagCardinality(sockets') > BagCardinality(sockets)

\* the step schedules a reconnect timeout
Schedules == BagCardinality(timers') = BagCardinality(timers) + 1

\* the step inserts a new event: a source's counter moves on by one
Arrives ==
    \/ transactionCounter' = transactionCounter + 1
    \/ wsSeq' = wsSeq + 1

\* C1: the buffer never holds more than 200 events, and an event inserted
\* into a full buffer becomes its first element, moves every other one down
\* by one and drops the last.
C1_BufferBound ==
    [][/\ Len(transactions') <= 200
       /\ (Len(transactions) = 200 /\ Arrives) =>
            /\ Len(transactions') = 200
            /\ transactions'[1] \notin {transactions[i] : i \in 1..200}
            /\ transactions'[1].seq \in {transactionCounter', wsSeq'}
            /\ \A i \in 2..200 : transactions'[i] = transactions[i - 1]]_vars

\* C1, its case: a buffer at capacity whose head arrived after 200 others
C1_Witness ==
    /\ Len(transactions) = 200
    /\ transactions[1].seq > 200

\* C2: fraudCount <= transactionsProcessed in every reachable state.
C2_FraudWithinProcessed ==
    stats.fraud_count <= stats.transactions_processed

\* C3: never a WebSocket open or connecting while the generator's interval
\* is active.
C3_OneSource ==
    ~(demoInterval /\ LiveSockets(sockets) > 0)

\* C4: once isDemoMode is true, no step constructs a WebSocket.
C4_NoSocketInLocalMode ==
    [][isDemoMode => ~Constructs]_vars

\* C5: in Live Mode never more than one WebSocket open or connecting.
C5_AtMostOneSocket ==
    ~isDemoMode => LiveSockets(sockets) <= 1

\* the retries are used up and none is pending, the session is and renders
\* running in Live Mode, and no start is in flight to connect by hand
Exhausted ==
    /\ reconnectAttempts = maxReconnectAttempts
    /\ timers = EmptyBag
    /\ isRunning /\ rIsRunning
    /\ ~isDemoMode /\ ~rIsDemoMode
    /\ InFlight(pending, "start") = {}

\* C6: after the fifth reconnect the session gives up: while it stays
\* running, no further WebSocket is constructed until a manual connect.
C6_GivesUp ==
    [][Exhausted => ~Constructs]_vars

BackoffTable == <<1000, 2000, 4000, 8000, 10000>>

\* C7: the k-th reconnect scheduled since the retry counter was last zero
\* waits min(1000 * 2^k, 10000) ms; the counter goes up by exactly one with
\* each scheduled reconnect, changes otherwise only back to zero, and never
\* exceeds 5.
C7_Backoff ==
    [][/\ reconnectAttempts' <= 5
       /\ IF Schedules
          THEN /\ reconnectAttempts' = reconnectAttempts + 1
               /\ Current(timers') # {}
               /\ \A t \in Current(timers') :
                    t.delay = BackoffTable[reconnectAttempts + 1]
          ELSE reconnectAttempts' \in {reconnectAttempts, 0}]_vars

\* C7, its case: the fifth reconnect is pending, with the capped delay
C7_Witness ==
    /\ reconnectAttempts = 5
    /\ \E t \in BagToSet(timers) : t.delay = 10000

\* C8: the close event of a socket that disconnect() closed schedules no
\* reconnect.
C8_NoReconnectAfterDisconnect ==
    [][ClosingSockets(sockets') < ClosingSockets(sockets) => ~Schedules]_vars

Racing(P, tag) == {r \in BagToSet(P) : r.tag = tag}

\* C9: when the last of a start and the stop issued while it was in flight
\* settles, the session is stopped: isRunning is false and no socket is
\* open or connecting.
C9_StopWins ==
    [][(Racing(pending, "stop") # {} /\ Racing(pending', "stop") = {}) =>
            (~isRunning' /\ LiveSockets(sockets') = 0)]_vars

\* C10: when the last of a start and the reset issued while it was in
\* flight settles, the session is reset: isRunning is false, both counters
\* are zero and the buffer is empty.
C10_ResetWins ==
    [][(Racing(pending, "reset") # {} /\ Racing(pending', "reset") = {}) =>
            /\ ~isRunning'
            /\ stats'.transactions_processed = 0
            /\ stats'.fraud_count = 0
            /\ transactions' = <<>>]_vars

\* a reset completes: at once in Local Mode, with the answer or the failure
\* of its request in Live Mode
ResetCompletes == ResetOk \/ ResetFail \/ (rIsDemoMode /\ ResetSimulator)

\* C11: when resetSimulator completes, in either mode and also when the
\* remote request failed, the buffer is empty, both counters are 0 and
\* isRunning is false.
C11_ResetSucceedsLocally ==
    [][ResetCompletes =>
            /\ transactions' = <<>>
            /\ stats'.transactions_processed = 0
            /\ stats'.fraud_count = 0
            /\ ~isRunning']_vars

\* C12: both counters are non-negative, and no step other than the
\* completion of a resetSimulator lowers either.
C12_CountersMonotone ==
    [][/\ stats'.transactions_processed >= 0
       /\ stats'.fraud_count >= 0
       /\ ~ResetCompletes =>
            /\ stats'.transactions_processed >= stats.transactions_processed
            /\ stats'.fraud_count >= stats.fraud_count]_vars

\* C13: in every state isRunning is true exactly when the socket is
\* connected in Live Mode or the generator's interval is set in Local Mode.
C13_RunningIffProducing ==
    isRunning <=>
        \/ ~isDemoMode /\ \E s \in Current(sockets) : s.st = "OPEN"
        \/ isDemoMode /\ demoInterval

\* an injectFraud completes: at once in Local Mode, with the answer of its
\* request in Live Mode
InjectCompletes == (rIsDemoMode /\ InjectFraud(BufferRun)) \/ InjectOk(BufferRun)

\* C14: when injectFraud completes successfully, the first element of the
\* buffer is the injected event (a new one, the latest of its source) and it
\* is a fraud, whatever the buffer held.
C14_InjectedIsHead ==
    [][InjectCompletes =>
            /\ transactions' # <<>>
            /\ transactions'[1].is_fraud
            /\ transactions'[1] \notin {transactions[i] : i \in 1..Len(transactions)}
            /\ transactions'[1].seq \in {transactionCounter', wsSeq'}
            /\ transactions'[1].seq \in {transactionCounter + 1, wsSeq + 1}]_vars

\* C14, its case: a fraud injected into the full buffer is its head
C14_Witness ==
    /\ Len(transactions) = 200
    /\ transactions[1].is_fraud
    /\ transactions[1].seq > 200

\* an operation of Local Simulation Mode that halts the generator: stop,
\* injectFraud, showFraudOnly, resetSimulator, or the teardown
Halts ==
    /\ rIsDemoMode
    /\ \/ StopSimulation
       \/ InjectFraud(GeneratorLimit)
       \/ ShowFraudOnly
       \/ ResetSimulator
       \/ Unmount

\* a generator tick: the generator's counter moves on by one while its
\* interval is active
Ticks == demoInterval /\ transactionCounter' = transactionCounter + 1

\* C15: in Local Simulation Mode a halting operation leaves the generator's
\* interval cancelled and nothing pending that would set it again without
\* the operator, also when an updateSpeed has its delayed restart pending;
\* after the teardown, where no operator can start again, the interval is
\* never active and no tick happens.
C15_GeneratorStaysHalted ==
    [][/\ Halts => (~demoInterval' /\ restarts' = 0)
       /\ phase = "unmounted" => (~demoInterval' /\ ~Ticks)]_vars

\* C19: updateSpeed(v) with v <= 0 changes nothing: stats (with its speed)
\* is unchanged, the generator is neither stopped nor set to restart, and no
\* request is sent.
C19_BadSpeedRejected ==
    [][\A v \in Speeds :
        (v <= 0 /\ UpdateSpeed(v)) =>
            UNCHANGED <<stats, demoInterval, isRunning, restarts, pending>>]_vars

\* the state a stop leaves in Live Mode: not running, the session holds no
\* socket and no reconnect timeout, the status is disconnected
LiveStopped ==
    /\ ~isRunning
    /\ Current(sockets) = {}
    /\ Current(timers) = {}
    /\ connectionStatus = "disconnected"

\* the state a stop leaves in Local Simulation Mode: not running, no
\* generator interval
LocalStopped == ~isRunning /\ ~demoInterval

Session ==
    <<transactions, stats, isRunning, error, connectionStatus, isDemoMode,
      demoInterval, transactionCounter, reconnectAttempts, sockets, timers,
      restarts>>

ControlFails == StartFail \/ StopFail \/ ConfigFail \/ InjectFail \/ ResetFail

\* C17: a failed remote call of start, stop, updateSpeed, injectFraud or
\* resetSimulator leaves a message in the session's error field.
C17_FailureSurfaced ==
    [][ControlFails => error' # "null"]_vars

\* C18: when the remote call of a start fails, isRunning is false
\* afterwards, an error is set, and that step constructs no WebSocket.
C18_FailedStart ==
    [][StartFail => (~isRunning' /\ error' # "null" /\ ~Constructs)]_vars

\* a close (with or without an error before it) of a socket that a newer
\* connect has superseded: the session refers to another socket, and one it
\* does not refer to leaves
StaleEvent ==
    /\ Current(sockets) # {}
    /\ \E s \in BagToSet(sockets) :
        /\ ~s.cur
        /\ sockets' \in {BagDel(sockets, s), Orphan(BagDel(sockets, s))}

\* C20: the close or error of a superseded socket leaves the session's
\* socket handle and the connection status as they are.
C20_StaleCallbackInert ==
    [][StaleEvent =>
            /\ Current(sockets') = Current(sockets)
            /\ connectionStatus' = connectionStatus]_vars

\* a step that runs disconnectWebSocket in Live Mode: the completion of a
\* stop or of a reset, or showFraudOnly
Disconnects == StopOk \/ ResetOk \/ (~rIsDemoMode /\ ShowFraudOnly)

\* C21: after disconnect() the retry counter carries no attempts: a connect
\* that follows starts from attempt 0.
C21_DisconnectForgetsRetries ==
    [][Disconnects => reconnectAttempts' = 0]_vars

\* C22: clearTransactions empties the buffer and changes nothing else:
\* counters, speed, isRunning, connection status, mode, the generator's
\* interval, the sockets and every other part of the session stay as they
\* were.
C22_ClearOnlyClears ==
    [][ClearTransactions =>
            /\ transactions' = <<>>
            /\ UNCHANGED <<stats, isRunning, error, connectionStatus, isDemoMode,
                           demoInterval, transactionCounter, reconnectAttempts,
                           sockets, timers, pending, restarts>>]_vars

\* C22, its case: the buffer is empty while the generator runs and its
\* counter stands above zero
C22_Witness ==
    /\ transactions = <<>>
    /\ demoInterval
    /\ stats.transactions_processed > 0
    /\ transactionCounter > 0

\* the positions of the frauds in a buffer
FraudAt(buf) == {i \in 1..Len(buf) : buf[i].is_fraud}

\* the re-render that commits the stop of a Live session which holds no
\* socket
RendersStopped ==
    /\ Commit
    /\ ~isDemoMode
    /\ rIsRunning /\ ~isRunning
    /\ Current(sockets) = {}

\* C23: showFraudOnly stops the source of its mode (isRunning false; the
\* generator's interval cancelled in Local Mode; no socket and no reconnect
\* timeout held in Live Mode, and none opened by the re-render of the
\* stopped session), leaves the counters, and makes the buffer the frauds
\* of the buffer in their order: its k-th event is the k-th fraud of the
\* old buffer.
C23_FraudOnly ==
    [][/\ ShowFraudOnly =>
            /\ ~isRunning'
            /\ rIsDemoMode => ~demoInterval'
            /\ ~rIsDemoMode => (Current(sockets') = {} /\ Current(timers') = {})
            /\ stats' = stats
            /\ Len(transactions') = Cardinality(FraudAt(transactions))
            /\ \A i \in FraudAt(transactions) :
                transactions'[Cardinality({j \in FraudAt(transactions) : j <= i})]
                    = transactions[i]
       /\ RendersStopped => Current(sockets') = {}]_vars

\* C24: a message that does not parse changes neither the buffer, nor the
\* counters, nor the connection status, nor the sockets, nor the retry
\* counter, and sets no error.
C24_MalformedDiscarded ==
    [][SocketMalformed(MaxTx + 1) =>
            UNCHANGED <<transactions, stats, connectionStatus, sockets,
                        reconnectAttempts, timers, error, isRunning>>]_vars

\* C24, its case: the stream has sent more frames than it has events
C24_Witness ==
    /\ wsSeq > MaxTx
    /\ \E s \in Current(sockets) : s.st = "OPEN"
    /\ connectionStatus = "connected"
    /\ error = "null"

\* the level the documented thresholds give a stored score (thousandths):
\* low below 0.4, medium from 0.4 and below 0.7, high from 0.7
DocumentedLevel(t) ==
    IF t >= 700 THEN "high" ELSE IF t >= 400 THEN "medium" ELSE "low"

\* C25: every generated event carries the level that the documented
\* thresholds give its stored (rounded) score.
C25_LevelMatchesScore ==
    \A i \in 1..Len(transactions) :
        transactions[i].risk_level = DocumentedLevel(transactions[i].risk_score)

\* C26: a failed status request puts the session in Local Simulation Mode
\* with no error shown, and no step of the session ever leaves Local
\* Simulation Mode.
C26_FailoverPermanent ==
    [][/\ StatusFail => (isDemoMode' /\ error' = "null")
       /\ isDemoMode => isDemoMode']_vars

\* C26, its case: a session that was mounted in Live Mode is in Local
\* Simulation Mode, and its connect callback is still the one of Live Mode
C26_Witness ==
    /\ phase = "mounted"
    /\ isDemoMode /\ ~cw.demo
    /\ error = "null"

\* C27: in a session of Local Simulation Mode that only starts, ticks and
\* resets, after n ticks since the construction or the last reset
\* (n = transactionCounter) transactions_processed is n, the buffer holds
\* min(n, 200) events, and the event at index i is the one of tick
\* n - i + 1, so each event was generated after the one that follows it.
C27_TicksCounted ==
    isDemoMode =>
        /\ transactionCounter > 0 => stats.transactions_processed = transactionCounter
        /\ Len(transactions) = Min(transactionCounter, BufferCapacity)
        /\ \A i \in 1..Len(transactions) :
            /\ transactions[i].src = "demo"
            /\ transactions[i].seq = transactionCounter - i + 1

\* C27, its case: the generator of a running session has ticked more often
\* than the buffer has room
C27_Witness ==
    /\ isDemoMode /\ rIsDemoMode
    /\ isRunning /\ rIsRunning /\ demoInterval
    /\ transactionCounter > BufferCapacity
    /\ Len(transactions) = BufferCapacity
    /\ stats.transactions_processed = transactionCounter

\* the number of requests of a kind in flight
InFlightCount(P, kind) ==
    BagCardinality([r \in InFlight(P, kind) |-> CopiesIn(r, P)])

\* C28: a toggle invokes one of stop and start, stop when its render shows
\* the session running and start otherwise, and two toggles of which the
\* first has not settled do not both start or both stop: a toggle never
\* leaves two start requests or two stop requests in flight.
C28_ToggleAlternates ==
    [][ToggleSimulation =>
            /\ \/ rIsRunning /\ StopSimulation
               \/ ~rIsRunning /\ StartSimulation
            /\ InFlightCount(pending', "start") <= 1
            /\ InFlightCount(pending', "stop") <= 1]_vars

\* an operation of Local Simulation Mode that halts the generator without
\* resetting the session
HaltsLocal ==
    /\ rIsDemoMode
    /\ StopSimulation \/ InjectFraud(GeneratorLimit) \/ ShowFraudOnly

\* C29: in Local Simulation Mode the is_running of the stats record agrees
\* with isRunning after a stop, an injectFraud or a showFraudOnly: both are
\* false, also when the generator has ticked.
C29_StatsRunningAgrees ==
    [][HaltsLocal => (stats'.is_running = isRunning' /\ ~isRunning')]_vars

\* C30: in Local Simulation Mode no two events of the buffer carry the same
\* sequence number.
C30_DistinctSequence ==
    isDemoMode =>
        \A i \in 1..Len(transactions) : \A j \in (i + 1)..Len(transactions) :
            transactions[i].seq # transactions[j].seq

\* C30, its case: the buffer holds the loaded demo data and events the
\* generator or injectFraud added after it
C30_Witness ==
    /\ isDemoMode
    /\ Len(transactions) > DemoDataSize
    /\ transactionCounter > DemoDataSize

====
